---------------------------- MODULE Spec2Model ----------------------------
(***************************************************************************)
(* Books Dashboard (src/app.py): a Streamlit script whose main() is run    *)
(* from top to bottom on every user interaction.  The model covers         *)
(*   - detect_column, scrape_books_data, clean_data, connect_database,     *)
(*   - the three load actions of main() and its render section.            *)
(* Text is modelled as a sequence of one-character strings, so that        *)
(* lower-casing, substring search, str.replace and float() are computed.   *)
(* A number is kept in hundredths (51.77 is 5177), which is exact for the  *)
(* two-decimal prices of the listing site.                                 *)
(***************************************************************************)
EXTENDS Integers, Sequences, FiniteSets, TLC

VARIABLES
    pc,             \* where the running script stands
    df,             \* st.session_state.df (None, or a table)
    csv_file,       \* the file books_data.csv
    conn,           \* main's local `conn`
    st_messages,    \* what st.error / st.success / st.warning have shown in this run
    slider,         \* the arguments main handed to st.slider
    selected_price, \* what st.slider returned
    filtered_df,    \* main's local `filtered_df`
    in_stock_df,    \* main's local `in_stock_df`
    search_results, \* main's local `search_results`
    site,           \* what the five page URLs answer (see PageAnswer)
    page,           \* scrape_books_data: the loop variable
    data,           \* scrape_books_data: the list `data`
    requested,      \* scrape_books_data: the pages requests.get was called for
    raw_df,         \* the table as it was handed to clean_data, or to the view
    columns_in,     \* detect_column: df.columns
    names_in,       \* detect_column: possible_names
    detected        \* detect_column: the value returned

vars == <<pc, df, csv_file, conn, st_messages, slider, selected_price,
          filtered_df, in_stock_df, search_results, site, page, data,
          requested, raw_df, columns_in, names_in, detected>>

(***************************************************************************)
(* Text                                                                    *)
(***************************************************************************)
UpperCase == <<"A","B","C","D","E","F","G","H","I","J","K","L","M",
               "N","O","P","Q","R","S","T","U","V","W","X","Y","Z">>
LowerCase == <<"a","b","c","d","e","f","g","h","i","j","k","l","m",
               "n","o","p","q","r","s","t","u","v","w","x","y","z">>

\* str.lower() on one character
LowerOf ==
    [c \in {UpperCase[i] : i \in 1..Len(UpperCase)} |->
        LowerCase[CHOOSE i \in 1..Len(UpperCase) : UpperCase[i] = c]]

lower_char(c) == IF c \in DOMAIN LowerOf THEN LowerOf[c] ELSE c

\* str.lower()
lower(s) == [i \in 1..Len(s) |-> lower_char(s[i])]

\* the match of `sub` in `s` that starts at position i
MatchAt(sub, s, i) ==
    /\ i + Len(sub) - 1 <= Len(s)
    /\ \A k \in 1..Len(sub) : s[i + k - 1] = sub[k]

\* Python's `sub in s` on strings
Contains(sub, s) == \E i \in 1..(Len(s) + 1) : MatchAt(sub, s, i)

\* Python's None
None == [k |-> "none", n |-> 0, s |-> <<>>]

(***************************************************************************)
(* detect_column                                                           *)
(***************************************************************************)
\* line 166-168: for name in possible_names: if name in df.columns: return name
RECURSIVE exact_loop(_, _, _)
exact_loop(columns, possible_names, i) ==
    IF i > Len(possible_names) THEN None
    ELSE IF \E j \in 1..Len(columns) : columns[j] = possible_names[i]
         THEN [k |-> "str", n |-> 0, s |-> possible_names[i]]
         ELSE exact_loop(columns, possible_names, i + 1)

\* line 171-173: for name in possible_names: if name.lower() in col.lower()
RECURSIVE partial_inner(_, _, _)
partial_inner(col, possible_names, i) ==
    IF i > Len(possible_names) THEN FALSE
    ELSE IF Contains(lower(possible_names[i]), lower(col)) THEN TRUE
         ELSE partial_inner(col, possible_names, i + 1)

\* line 170-173: for col in df.columns: ... return col
RECURSIVE partial_loop(_, _, _)
partial_loop(columns, possible_names, j) ==
    IF j > Len(columns) THEN None
    ELSE IF partial_inner(columns[j], possible_names, 1)
         THEN [k |-> "str", n |-> 0, s |-> columns[j]]
         ELSE partial_loop(columns, possible_names, j + 1)

\* detect_column with the partial match made case-sensitive
detect_column_case_sensitive(columns, possible_names) ==
    LET exact == exact_loop(columns, possible_names, 1)
        hits  == {j \in 1..Len(columns) :
                    \E i \in 1..Len(possible_names) :
                        Contains(possible_names[i], columns[j])}
    IN  IF exact # None THEN exact
        ELSE IF hits = {} THEN None
        ELSE [k |-> "str", n |-> 0,
              s |-> columns[CHOOSE j \in hits : \A h \in hits : j <= h]]

\* detect_column with the partial match looping over the names first
detect_column_names_first(columns, possible_names) ==
    LET exact == exact_loop(columns, possible_names, 1)
        hit(i, j) == Contains(lower(possible_names[i]), lower(columns[j]))
        names == {i \in 1..Len(possible_names) : \E j \in 1..Len(columns) : hit(i, j)}
        i0    == CHOOSE i \in names : \A h \in names : i <= h
        cols  == {j \in 1..Len(columns) : hit(i0, j)}
    IN  IF exact # None THEN exact
        ELSE IF names = {} THEN None
        ELSE [k |-> "str", n |-> 0,
              s |-> columns[CHOOSE j \in cols : \A h \in cols : j <= h]]

detect_column(columns, possible_names) ==
    LET exact == exact_loop(columns, possible_names, 1)
    IN  IF exact # None THEN exact
        ELSE partial_loop(columns, possible_names, 1)

(***************************************************************************)
(* Cells and tables                                                        *)
(* A cell is a number (n, in hundredths), a text (s) or NaN/None.          *)
(* A table is its column names and its rows; rows[i][j] is the cell of     *)
(* row i in column j.                                                      *)
(***************************************************************************)
Num(c)  == [k |-> "num", n |-> c, s |-> <<>>]
Text(t) == [k |-> "str", n |-> 0, s |-> t]
NaN     == [k |-> "nan", n |-> 0, s |-> <<>>]
\* a Python int (n as it is)
PyInt(i) == [k |-> "int", n |-> i, s |-> <<>>]

Table(cols, rs) == [columns |-> cols, rows |-> rs]

\* the position of column `name` in the table (0 when there is none)
col_index(t, name) ==
    IF \E j \in 1..Len(t.columns) : t.columns[j] = name
    THEN CHOOSE j \in 1..Len(t.columns) :
            /\ t.columns[j] = name
            /\ \A i \in 1..(j - 1) : t.columns[i] # name
    ELSE 0

\* df[name] = values : the column replaced, everything else as it was
set_column(t, j, values) ==
    Table(t.columns,
          [i \in 1..Len(t.rows) |->
              [c \in 1..Len(t.columns) |->
                  IF c = j THEN values[i] ELSE t.rows[i][c]]])

(***************************************************************************)
(* clean_data                                                              *)
(***************************************************************************)
Digits == <<"0","1","2","3","4","5","6","7","8","9">>
DigitOf ==
    [c \in {Digits[d] : d \in 1..Len(Digits)} |->
        (CHOOSE d \in 1..Len(Digits) : Digits[d] = c) - 1]

is_digit(c) == c \in DOMAIN DigitOf
digit_value(c) == DigitOf[c]

\* str.replace(old, new): every occurrence, left to right, not overlapping
RECURSIVE str_replace(_, _, _)
str_replace(s, old, new) ==
    IF s = <<>> THEN <<>>
    ELSE IF Len(old) > 0 /\ MatchAt(old, s, 1)
         THEN new \o str_replace(SubSeq(s, Len(old) + 1, Len(s)), old, new)
         ELSE <<s[1]>> \o str_replace(Tail(s), old, new)

\* the value of a run of digits
RECURSIVE digits_value(_)
digits_value(s) ==
    IF s = <<>> THEN 0
    ELSE digits_value(SubSeq(s, 1, Len(s) - 1)) * 10 + digit_value(s[Len(s)])

\* float(s) for the texts [+-]digits[.digits]: the text is a number
float_ok(s) ==
    LET body == IF s # <<>> /\ s[1] \in {"+", "-"} THEN Tail(s) ELSE s
        dots == {i \in 1..Len(body) : body[i] = "."}
    IN  /\ \A i \in 1..Len(body) : is_digit(body[i]) \/ body[i] = "."
        /\ Cardinality(dots) <= 1
        /\ \E i \in 1..Len(body) : is_digit(body[i])

\* float(s), in hundredths; digits after the second decimal are dropped
float_value(s) ==
    LET neg  == s # <<>> /\ s[1] = "-"
        body == IF s # <<>> /\ s[1] \in {"+", "-"} THEN Tail(s) ELSE s
        dot  == IF \E i \in 1..Len(body) : body[i] = "."
                THEN CHOOSE i \in 1..Len(body) : body[i] = "."
                ELSE Len(body) + 1
        whole == SubSeq(body, 1, dot - 1)
        frac  == SubSeq(body, dot + 1, Len(body))
        f1 == IF Len(frac) >= 1 THEN digit_value(frac[1]) ELSE 0
        f2 == IF Len(frac) >= 2 THEN digit_value(frac[2]) ELSE 0
        mag == digits_value(whole) * 100 + f1 * 10 + f2
    IN  IF neg THEN 0 - mag ELSE mag

\* int(x) of a float kept in hundredths: truncation toward zero
int_of(c) == IF c >= 0 THEN c \div 100 ELSE 0 - ((0 - c) \div 100)

\* the artifact line 210 strips
CurrencyArtifact == <<"Â", "£">>

\* Series.str.replace on one cell: a text is rewritten, anything else is NaN
str_replace_cell(c) ==
    IF c.k = "str" THEN Text(str_replace(c.s, CurrencyArtifact, <<>>)) ELSE NaN

\* Series.astype(float) on one cell succeeds
astype_float_ok(c) == c.k = "nan" \/ c.k = "num" \/ (c.k = "str" /\ float_ok(c.s))

astype_float(c) == IF c.k = "str" THEN Num(float_value(c.s)) ELSE c

\* clean_data(df): the table afterwards, and whether "Error cleaning data" was shown
clean_data(t) ==
    LET j == col_index(t, <<"p","r","i","c","e">>)
    IN  IF j = 0
        THEN [df |-> t, error |-> TRUE]                     \* KeyError: 'price'
        ELSE IF \A i \in 1..Len(t.rows) : t.rows[i][j].k # "str"
             THEN IF Len(t.rows) = 0
                  THEN [df |-> t, error |-> FALSE]
                  ELSE [df |-> t, error |-> TRUE]           \* .str on a non-text column
        ELSE LET stripped == [i \in 1..Len(t.rows) |-> str_replace_cell(t.rows[i][j])]
             IN  IF \E i \in 1..Len(t.rows) : ~astype_float_ok(stripped[i])
                 THEN [df |-> t, error |-> TRUE]            \* line 210 raised
                 ELSE LET floats == [i \in 1..Len(t.rows) |-> astype_float(stripped[i])]
                          t1 == set_column(t, j, floats)    \* line 210 assigned
                      IN  IF \E i \in 1..Len(t.rows) : floats[i].k = "nan"
                          THEN [df |-> t1, error |-> TRUE]  \* line 211 raised
                          ELSE [df |-> set_column(t1, j,
                                          [i \in 1..Len(t.rows) |->
                                              Num(int_of(floats[i].n) * 100)]),
                                error |-> FALSE]

(***************************************************************************)
(* scrape_books_data                                                       *)
(* What a page URL answers: the GET fails, or it returns markup with or    *)
(* without the <ol class="row"> container; the container holds the         *)
(* <article class="product_pod"> entries, each with or without its title   *)
(* anchor, its price element and its availability element (None: absent).  *)
(***************************************************************************)
NumPages == 5

Msg(text, p) == [text |-> text, page |-> p]

ScrapeColumns == << <<"B","o","o","k","_","N","a","m","e">>,
                    <<"p","r","i","c","e">>,
                    <<"a","v","a","i","l","a","b","i","l","i","t","y">> >>

is_space(c) == c \in {" ", "\n", "\t"}

\* str.strip()
RECURSIVE strip(_)
strip(s) ==
    IF s = <<>> THEN s
    ELSE IF is_space(s[1]) THEN strip(Tail(s))
    ELSE IF is_space(s[Len(s)]) THEN strip(SubSeq(s, 1, Len(s) - 1))
    ELSE s

FetchError  == [fetch |-> "error", container |-> FALSE, books |-> <<>>]
NoContainer == [fetch |-> "ok",    container |-> FALSE, books |-> <<>>]

\* entry k of page p as the site serves it (artifact: what precedes the amount)
SiteBook(p, k, artifact) ==
    [title        |-> Text(<<"b", Digits[p + 1], Digits[k + 1]>>),
     price        |-> Text(artifact \o <<Digits[p + 1], Digits[k + 1], ".", "7", "7">>),
     availability |-> Text(<<"\n", " ", "I","n"," ","s","t","o","c","k", " ", "\n">>)]

\* the same entry with one of its three elements absent
Defective(b, which) ==
    CASE which = 0 -> [b EXCEPT !.title = None]
      [] which = 1 -> [b EXCEPT !.price = None]
      [] OTHER     -> [b EXCEPT !.availability = None]

\* page p with n entries, entry d of them defective (d = 0: none)
Listing(p, n, d, artifact) ==
    [fetch |-> "ok", container |-> TRUE,
     books |-> [k \in 1..n |->
                  IF k = d THEN Defective(SiteBook(p, k, artifact), (p + d) % 3)
                  ELSE SiteBook(p, k, artifact)]]

\* the answer of page p, from its short form <<kind, n, d, artifact>>
\* (see PageShapes)
PageAnswer(p, sh) ==
    CASE sh[1] = "error" -> FetchError
      [] sh[1] = "bare"  -> NoContainer
      [] OTHER           -> Listing(p, sh[2], sh[3], sh[4])

\* lines 192-201: for book in books, from entry i on; `error` is the exception
\* a missing element raises, which leaves the loop with what was appended so far
RECURSIVE books_loop(_, _, _)
books_loop(books, i, acc) ==
    IF i > Len(books) THEN [data |-> acc, error |-> FALSE]
    ELSE LET book == books[i]
         IN  IF book.title = None \/ book.price = None \/ book.availability = None
             THEN [data |-> acc, error |-> TRUE]
             ELSE books_loop(books, i + 1,
                     Append(acc, <<book.title, book.price,
                                   Text(strip(book.availability.s))>>))

\* scrape_page dropping the entries of a page that fails half-way
scrape_page_all_or_nothing(answer, acc) ==
    IF answer.fetch = "error" THEN [data |-> acc, error |-> TRUE]
    ELSE IF ~answer.container THEN [data |-> acc, error |-> FALSE]
    ELSE IF books_loop(answer.books, 1, acc).error
         THEN [data |-> acc, error |-> TRUE]
         ELSE books_loop(answer.books, 1, acc)

\* lines 184-203, one turn of the page loop: `data` afterwards, and whether
\* the except clause ran (st.error "Error scraping page")
scrape_page(answer, acc) ==
    IF answer.fetch = "error" THEN [data |-> acc, error |-> TRUE]
    ELSE IF ~answer.container THEN [data |-> acc, error |-> FALSE]
    ELSE books_loop(answer.books, 1, acc)

\* lines 182-205: the page loop from page p on
RECURSIVE scrape_loop(_, _, _, _)
scrape_loop(answers, p, acc, errs) ==
    IF p > NumPages THEN [data |-> acc, errors |-> errs]
    ELSE LET r == scrape_page(PageAnswer(p, answers[p]), acc)
         IN  scrape_loop(answers, p + 1, r.data,
                 IF r.error THEN Append(errs, Msg("Error scraping page", p))
                 ELSE errs)

scrape_books_data(answers) == scrape_loop(answers, 1, <<>>, <<>>)

(***************************************************************************)
(* Column names and texts used below                                       *)
(***************************************************************************)
N_price        == <<"p","r","i","c","e">>
N_Price        == <<"P","r","i","c","e">>
N_price_color  == <<"p","r","i","c","e","_","c","o","l","o","r">>
N_availability == <<"a","v","a","i","l","a","b","i","l","i","t","y">>
N_Availability == <<"A","v","a","i","l","a","b","i","l","i","t","y">>
N_stock        == <<"s","t","o","c","k">>
N_instock      == <<"i","n","s","t","o","c","k">>
N_Title        == <<"T","i","t","l","e">>
N_title        == <<"t","i","t","l","e">>
N_Book_Name    == <<"B","o","o","k","_","N","a","m","e">>
N_name         == <<"n","a","m","e">>
N_Unit_Price   == <<"U","n","i","t","_","P","r","i","c","e">>
N_In_Stock     == <<"I","n","_","S","t","o","c","k">>

\* line 66-68: the candidate lists main hands to detect_column
PriceNames        == <<N_price, N_Price, N_price_color>>
AvailabilityNames == <<N_availability, N_Availability, N_stock, N_instock>>
TitleNames        == <<N_Title, N_title, N_Book_Name, N_Book_Name, N_name>>

\* line 107: the literal 'in stock'
T_in_stock == <<"i","n"," ","s","t","o","c","k">>

(***************************************************************************)
(* Inputs: the bounds, and the sets the inputs are drawn from              *)
(***************************************************************************)
MaxBooks     == 2    \* entries of one listing page
MaxCleanRows == 3    \* rows of a table handed to clean_data
MaxColumns   == 2    \* columns of a table handed to detect_column
MaxNames     == 2    \* candidates handed to detect_column
MaxRows      == 2    \* rows of the database table
MaxViewRows  == 3    \* rows of a table the view is drawn for

\* the sequences over S of length at most n
SeqUpTo(S, n) == UNION {[1..m -> S] : m \in 0..n}

\* What one page answers, in short: <<"error", ..>> (the GET fails), <<"bare", ..>>
\* (no container), or <<"list", n, d, artifact>>: a listing of n entries whose
\* entry d is defective (d = 0: none), the amounts preceded by `artifact`.
\* A listing is empty or full (MaxBooks entries).
PageShapes ==
    {<<"error", 0, 0, <<>> >>, <<"bare", 0, 0, <<>> >>}
    \cup {sh \in {"list"} \X {0, MaxBooks} \X (0..MaxBooks) \X {CurrencyArtifact} :
            sh[3] <= sh[2]}

Sites == [1..NumPages -> PageShapes]

\* the price cells of the tables handed to clean_data
CleanPrices ==
    {Text(<<"Â","£","5","1",".","7","7">>),
     Text(<<"Â","£","2","3",".","0","0">>),
     Text(<<"£","1","2",".","5","0">>),
     Text(<<"f","r","e","e">>),
     Text(<<>>),
     NaN}

CleanRows == {<<Text(<<"b">>), c, Text(<<"I","n"," ","s","t","o","c","k">>)>> :
                c \in CleanPrices}

CleanInputs == {Table(ScrapeColumns, rs) : rs \in SeqUpTo(CleanRows, MaxCleanRows)}

\* the names the columns and candidates of detect_column are drawn from
DetectNames == {N_price, N_Price, N_price_color, N_Unit_Price,
                N_stock, N_In_Stock, N_Book_Name, N_name}

(***************************************************************************)
(* The three functions, each run on its own                                *)
(***************************************************************************)
sessionVars == <<df, csv_file, conn, slider, selected_price, filtered_df,
                 in_stock_df, search_results>>
scrapeVars  == <<site, page, data, requested>>
detectVars  == <<columns_in, names_in, detected>>

SessionIdle ==
    /\ df = None /\ csv_file = None /\ conn = "unset" /\ slider = None
    /\ selected_price = None /\ filtered_df = None /\ in_stock_df = None
    /\ search_results = None
ScrapeIdle == site = <<>> /\ page = 0 /\ data = <<>> /\ requested = <<>>
DetectIdle == columns_in = <<>> /\ names_in = <<>> /\ detected = None

\* ---- detect_column
InitDetect ==
    /\ pc = "detect_call"
    /\ columns_in \in SeqUpTo(DetectNames, MaxColumns)
    /\ names_in \in SeqUpTo(DetectNames, MaxNames)
    /\ detected = None
    /\ st_messages = <<>> /\ raw_df = None
    /\ SessionIdle /\ ScrapeIdle

Detect ==
    /\ pc = "detect_call"
    /\ detected' = detect_column(columns_in, names_in)
    /\ pc' = "detect_done"
    /\ UNCHANGED <<columns_in, names_in, st_messages, raw_df, sessionVars, scrapeVars>>

NextDetect == Detect

SpecDetect == InitDetect /\ [][NextDetect]_vars

\* ---- clean_data
InitClean ==
    /\ pc = "clean_call"
    /\ raw_df \in CleanInputs
    /\ df = raw_df
    /\ st_messages = <<>>
    /\ csv_file = None /\ conn = "unset" /\ slider = None
    /\ selected_price = None /\ filtered_df = None /\ in_stock_df = None
    /\ search_results = None
    /\ ScrapeIdle /\ DetectIdle

Clean ==
    /\ pc = "clean_call"
    /\ LET r == clean_data(df)
       IN  /\ df' = r.df
           /\ st_messages' = IF r.error THEN <<Msg("Error cleaning data", 0)>>
                              ELSE <<>>
    /\ pc' = "clean_done"
    /\ UNCHANGED <<raw_df, csv_file, conn, slider, selected_price, filtered_df,
                   in_stock_df, search_results, scrapeVars, detectVars>>

NextClean == Clean

SpecClean == InitClean /\ [][NextClean]_vars

\* ---- scrape_books_data, one turn of its page loop at a time
InitScrape ==
    /\ pc = "scrape_loop"
    /\ site \in Sites
    /\ page = 1
    /\ data = <<>>
    /\ requested = <<>>
    /\ st_messages = <<>> /\ raw_df = None
    /\ SessionIdle /\ DetectIdle

\* lines 182-203: the body of the loop for the current page
ScrapePage ==
    /\ pc = "scrape_loop"
    /\ page <= NumPages
    /\ requested' = Append(requested, page)
    /\ LET r == scrape_page(PageAnswer(page, site[page]), data)
       IN  /\ data' = r.data
           /\ st_messages' = IF r.error
                              THEN Append(st_messages, Msg("Error scraping page", page))
                              ELSE st_messages
    /\ page' = page + 1
    /\ UNCHANGED <<pc, site, raw_df, sessionVars, detectVars>>

\* line 205: return data
ScrapeReturn ==
    /\ pc = "scrape_loop"
    /\ page > NumPages
    /\ pc' = "scrape_done"
    /\ UNCHANGED <<site, page, data, requested, st_messages, raw_df,
                   sessionVars, detectVars>>

NextScrape == ScrapePage \/ ScrapeReturn

SpecScrape == InitScrape /\ [][NextScrape]_vars

(***************************************************************************)
(* main: helpers of the load actions and of the view                       *)
(***************************************************************************)
\* the decimal digits of a natural number
RECURSIVE nat_digits(_)
nat_digits(n) ==
    IF n < 10 THEN <<Digits[n + 1]>>
    ELSE nat_digits(n \div 10) \o <<Digits[(n % 10) + 1]>>

\* a number as text: 48 for 4800, 51.77 for 5177, 51.7 for 5170
number_text(c) ==
    LET mag  == IF c < 0 THEN 0 - c ELSE c
        frac == mag % 100
    IN  (IF c < 0 THEN <<"-">> ELSE <<>>)
        \o nat_digits(mag \div 100)
        \o (IF frac = 0 THEN <<>>
            ELSE IF frac % 10 = 0 THEN <<".", Digits[(frac \div 10) + 1]>>
            ELSE <<".", Digits[(frac \div 10) + 1], Digits[(frac % 10) + 1]>>)

\* Series.astype(str) on one cell
str_of(c) ==
    CASE c.k = "str" -> c.s
      [] c.k = "num" -> number_text(c.n)
      [] OTHER       -> <<"n","a","n">>

\* line 31: pd.DataFrame(data), data the list of dicts of scrape_books_data
DataFrame(records) ==
    IF records = <<>> THEN Table(<<>>, <<>>) ELSE Table(ScrapeColumns, records)

\* df.empty
empty(t) == Len(t.columns) = 0 \/ Len(t.rows) = 0

\* line 33: to_csv: the file holds the header and every cell as text
\* (an absent value and an empty text are both written as nothing)
to_csv(t) ==
    Table(t.columns,
          [i \in 1..Len(t.rows) |->
              [j \in 1..Len(t.columns) |->
                  LET c == t.rows[i][j]
                  IN  IF c.k = "nan" \/ str_of(c) = <<>> THEN NaN
                      ELSE Text(str_of(c))]])

\* line 21: read_csv fails on a missing file and on a file with no header
read_csv_ok(f) == f # None /\ Len(f.columns) > 0

\* line 21: read_csv: a column whose texts are all numbers is read as numbers
read_csv(f) ==
    LET numeric(j) == \A i \in 1..Len(f.rows) :
                          f.rows[i][j].k = "nan" \/ float_ok(f.rows[i][j].s)
    IN  Table(f.columns,
              [i \in 1..Len(f.rows) |->
                  [j \in 1..Len(f.columns) |->
                      LET c == f.rows[i][j]
                      IN  IF c.k = "str" /\ numeric(j) THEN Num(float_value(c.s))
                          ELSE c]])

\* lines 216-229: the connection, and whether "Database connection failed" was shown
connect_database(reachable) ==
    IF reachable THEN [conn |-> "open", error |-> FALSE]
    ELSE [conn |-> "None", error |-> TRUE]

\* line 77: pd.to_numeric(errors='coerce') on one cell
to_numeric(c) ==
    CASE c.k = "num" -> c
      [] c.k = "str" -> IF float_ok(c.s) THEN Num(float_value(c.s)) ELSE NaN
      [] OTHER       -> NaN

\* line 78: df.dropna(subset=[price_col])
dropna(t, j) == Table(t.columns, SelectSeq(t.rows, LAMBDA r : r[j].k # "nan"))

MinOf(S) == CHOOSE x \in S : \A y \in S : x <= y
MaxOf(S) == CHOOSE x \in S : \A y \in S : x >= y

\* line 82: the literal 50
DefaultCeiling == 50

\* line 82: default_price = min(max_price, 50)
default_price(max_price) == IF max_price < DefaultCeiling THEN max_price ELSE DefaultCeiling

\* lines 80-89: the arguments of st.slider, from the table without its NaN prices
slider_args(df_clean, j) ==
    LET prices == {df_clean.rows[i][j].n : i \in 1..Len(df_clean.rows)}
        min_price == int_of(MinOf(prices))
        max_price == int_of(MaxOf(prices))
    IN  [min_value |-> min_price, max_value |-> max_price,
         value |-> default_price(max_price)]

\* st.slider raises unless min_value <= value <= max_value
slider_ok(a) == a.min_value <= a.value /\ a.value <= a.max_value

\* price_filter with < for <=
price_filter_below(df_clean, j, T) ==
    Table(df_clean.columns, SelectSeq(df_clean.rows, LAMBDA r : r[j].n < T * 100))

\* line 91: df_clean[df_clean[price_col] <= selected_price]
price_filter(df_clean, j, T) ==
    Table(df_clean.columns, SelectSeq(df_clean.rows, LAMBDA r : r[j].n <= T * 100))

\* lines 107-108: the rows whose availability, as text and lower-cased, holds 'in stock'
in_stock(t, j) ==
    Table(t.columns,
          SelectSeq(t.rows, LAMBDA r : Contains(T_in_stock, lower(str_of(r[j])))))

\* line 122: the rows whose title, as text, holds the search term, whatever
\* the case (the term is taken literally: the terms drawn hold no regex syntax)
search(t, j, term) ==
    Table(t.columns,
          SelectSeq(t.rows, LAMBDA r : Contains(lower(term), lower(str_of(r[j])))))

(***************************************************************************)
(* main: what the session can meet                                         *)
(***************************************************************************)
T_Light == <<"L","i","g","h","t">>
T_Sharp == <<"S","h","a","r","p">>
T_In    == <<"I","n"," ","s","t","o","c","k">>
T_Out   == <<"O","u","t"," ","o","f"," ","s","t","o","c","k">>

\* rows of BooksTable: title, price, availability
DbRows ==
    { <<Text(T_Light), Text(<<"4","8">>),     Text(T_In)>>,
      <<Text(T_Sharp), Num(5177),             Text(T_Out)>>,
      <<Text(T_Light), Text(<<"n","/","a">>), NaN>>,
      <<Text(T_Sharp), Num(5200),             Text(T_In)>> }

\* BooksTable with its price column, and one without it
DbTables ==
    {Table(<<N_Book_Name, N_Unit_Price, N_In_Stock>>, rs) :
        rs \in SeqUpTo(DbRows, MaxRows)}
    \cup {Table(<<N_title, N_instock>>,
                << <<Text(T_Light), Text(T_In)>>, <<Text(T_Sharp), NaN>> >>)}

\* what "Load from Database" can meet: the server refuses the connection,
\* the query raises, or the query returns BooksTable
DbOutcomes ==
    {[kind |-> "unreachable", table |-> None], [kind |-> "query fails", table |-> None]}
    \cup {[kind |-> "rows", table |-> t] : t \in DbTables}

\* books_data.csv when the session starts: absent, or left by someone
InitialFiles ==
    {None,
     to_csv(Table(<<N_Title, N_price>>,
                  << <<Text(T_Light), Num(4800)>>,
                     <<Text(T_Sharp), Text(<<"n","/","a">>)>> >>))}

\* the listing site: down; answering without the container; up on page 4
\* only; the same, decoded so that the amounts carry "£" alone
SessionSites ==
    { [p \in 1..NumPages |-> <<"error", 0, 0, <<>> >>],
      [p \in 1..NumPages |-> <<"bare", 0, 0, <<>> >>],
      [p \in 1..NumPages |-> IF p # 4 THEN <<"error", 0, 0, <<>> >>
                             ELSE <<"list", 2, 0, CurrencyArtifact>>],
      [p \in 1..NumPages |-> IF p # 4 THEN <<"bare", 0, 0, <<>> >>
                             ELSE <<"list", 2, 0, <<"£">> >>] }

\* what the user types into the search box
SearchTerms == {<<>>, <<"l","i","g","h","t">>}

(***************************************************************************)
(* main: one run of the script: it starts (lines 9-16), handles the button *)
(* that was pressed, if any (lines 19-47), and draws the view (lines       *)
(* 50-162); the page then stays as drawn until the user acts again.        *)
(* pc: "idle" (the page is shown), "start" (line 19), "view" (line 50).    *)
(***************************************************************************)
viewVars == <<slider, selected_price, filtered_df, in_stock_df, search_results>>

\* the page of the previous run is gone when the script starts again
ClearView ==
    /\ slider' = None /\ selected_price' = None /\ filtered_df' = None
    /\ in_stock_df' = None /\ search_results' = None

\* a fresh session: nothing is shown, session_state holds no table
\* (lines 12-13 make df None in the first run: a missing df reads as None)
Init ==
    /\ pc = "idle"
    /\ df = None
    /\ csv_file \in InitialFiles
    /\ conn = "unset"
    /\ st_messages = <<>>
    /\ slider = None /\ selected_price = None /\ filtered_df = None
    /\ in_stock_df = None /\ search_results = None
    /\ raw_df = None
    /\ ScrapeIdle /\ DetectIdle

\* lines 9-16: the user acts, the script starts again on an empty page
StartRun ==
    /\ pc = "idle"
    /\ pc' = "start"
    /\ st_messages' = <<>>
    /\ ClearView
    /\ UNCHANGED <<df, csv_file, conn, raw_df, scrapeVars, detectVars>>

\* lines 19-24: "Load from CSV"; readable: the file can be opened and decoded
LoadFromCSV ==
    /\ pc = "start"
    /\ \E readable \in BOOLEAN :
         IF readable /\ read_csv_ok(csv_file)
         THEN /\ df' = read_csv(csv_file)
              /\ st_messages' = Append(st_messages, Msg("Data loaded from CSV!", 0))
         ELSE /\ df' = df
              /\ st_messages' = Append(st_messages, Msg("Error loading CSV", 0))
    /\ pc' = "view"
    /\ UNCHANGED <<csv_file, conn, raw_df, viewVars, scrapeVars, detectVars>>

\* lines 27-36: "Scrape New Data"; writable: to_csv can write the file
ScrapeNewData ==
    /\ pc = "start"
    /\ \E answers \in SessionSites, writable \in BOOLEAN :
         LET scraped == scrape_books_data(answers)              \* line 30
             cleaned == clean_data(DataFrame(scraped.data))     \* lines 31-32
             shown   == scraped.errors
                        \o (IF cleaned.error THEN <<Msg("Error cleaning data", 0)>>
                            ELSE <<>>)
         IN  /\ site' = answers
             /\ df' = cleaned.df
             /\ IF writable
                THEN /\ csv_file' = to_csv(cleaned.df)          \* line 33
                     /\ st_messages' = Append(shown, Msg("New data scraped and saved!", 0))
                ELSE /\ csv_file' = csv_file
                     /\ st_messages' = Append(shown, Msg("Error scraping data", 0))
    /\ pc' = "view"
    /\ UNCHANGED <<conn, raw_df, viewVars, page, data, requested, detectVars>>

\* lines 39-47: "Load from Database"
LoadFromDatabase ==
    /\ pc = "start"
    /\ \E outcome \in DbOutcomes :
         LET c == connect_database(outcome.kind # "unreachable")     \* line 41
         IN  IF c.conn = "None"
             THEN /\ conn' = c.conn
                  /\ df' = df
                  /\ st_messages' = <<Msg("Database connection failed", 0)>>
             ELSE IF outcome.kind = "query fails"
             THEN /\ conn' = c.conn                             \* line 44 is not reached
                  /\ df' = df
                  /\ st_messages' = <<Msg("Error loading from database", 0)>>
             ELSE /\ conn' = "closed"                           \* line 44
                  /\ df' = outcome.table                        \* line 43
                  /\ st_messages' = <<Msg("Data loaded from database!", 0)>>
    /\ pc' = "view"
    /\ UNCHANGED <<csv_file, raw_df, viewVars, scrapeVars, detectVars>>

\* no button is pressed: the run was started by a widget of the view
NoButton ==
    /\ pc = "start"
    /\ pc' = "view"
    /\ UNCHANGED <<df, csv_file, conn, st_messages, raw_df, viewVars,
                   scrapeVars, detectVars>>

\* the position of the column detect_column found (0: None)
found_index(t, found) == IF found = None THEN 0 ELSE col_index(t, found.s)

\* line 77: df[price_col] = pd.to_numeric(df[price_col], errors='coerce')
coerce_price(t, j) ==
    set_column(t, j, [i \in 1..Len(t.rows) |-> to_numeric(t.rows[i][j])])

\* the thresholds the slider lets the user choose
slider_values(a) == a.min_value .. a.max_value

\* lines 73-100: the price section on the table t (already coerced), price
\* column j, the user holding the slider at T; strict: this Streamlit refuses
\* a slider whose min_value equals its max_value
price_section(t, j, T, strict) ==
    IF j = 0
    THEN [slider |-> None, selected |-> None, filtered |-> t,
          shown |-> <<Msg("Price column not found in the data", 0)>>]
    ELSE LET df_clean == dropna(t, j)
         IN  IF Len(df_clean.rows) = 0                      \* int(nan) raises
             THEN [slider |-> None, selected |-> None, filtered |-> t,
                   shown |-> <<Msg("Error with price filtering", 0)>>]
             ELSE LET a == slider_args(df_clean, j)
                  IN  IF ~slider_ok(a) \/ (strict /\ a.min_value = a.max_value)
                      THEN [slider |-> a, selected |-> None, filtered |-> t,
                            shown |-> <<Msg("Error with price filtering", 0)>>]
                      ELSE [slider |-> a, selected |-> PyInt(T),
                            filtered |-> price_filter(df_clean, j, T),
                            shown |-> <<>>]

\* the thresholds to try on table t with price column j
thresholds(t, j) ==
    IF j = 0 \/ Len(dropna(t, j).rows) = 0 THEN {0}
    ELSE slider_values(slider_args(dropna(t, j), j))

\* whether the Streamlit at hand refuses min_value = max_value matters
\* only for a slider that has them equal
strictness(t, j) ==
    IF j = 0 \/ Len(dropna(t, j).rows) = 0 THEN {FALSE}
    ELSE IF slider_args(dropna(t, j), j).min_value = slider_args(dropna(t, j), j).max_value
         THEN BOOLEAN ELSE {FALSE}

\* lines 50-162: the view
Render ==
    /\ pc = "view"
    /\ IF df = None \/ empty(df)
       THEN /\ st_messages' = Append(st_messages, Msg("No data loaded", 0))
            /\ UNCHANGED <<df, viewVars>>
       ELSE LET pj == found_index(df, detect_column(df.columns, PriceNames))
                aj == found_index(df, detect_column(df.columns, AvailabilityNames))
                tj == found_index(df, detect_column(df.columns, TitleNames))
                t1 == IF pj = 0 THEN df ELSE coerce_price(df, pj)
            IN  \E T \in thresholds(t1, pj), strict \in strictness(t1, pj),
                   term \in SearchTerms :
                  LET ps == price_section(t1, pj, T, strict)
                  IN  /\ df' = t1                               \* line 77 writes into df
                      /\ slider' = ps.slider
                      /\ selected_price' = ps.selected
                      /\ filtered_df' = ps.filtered
                      /\ in_stock_df' = IF aj = 0 THEN None ELSE in_stock(t1, aj)
                      /\ search_results' = IF tj = 0 \/ term = <<>> THEN None
                                           ELSE search(t1, tj, term)
                      /\ st_messages' = st_messages \o ps.shown
                                        \o (IF aj = 0
                                            THEN <<Msg("Availability column not found", 0)>>
                                            ELSE <<>>)
    /\ pc' = "idle"
    /\ conn' = "unset"                        \* main returns: its locals are gone
    /\ UNCHANGED <<csv_file, raw_df, scrapeVars, detectVars>>

Next ==
    \/ StartRun
    \/ LoadFromCSV
    \/ ScrapeNewData
    \/ LoadFromDatabase
    \/ NoButton
    \/ Render

Spec == Init /\ [][Next]_vars

\* ---- the view, drawn for a table that has just been loaded
ViewTables ==
    {Table(<<N_Book_Name, N_Unit_Price, N_In_Stock>>, rs) :
        rs \in SeqUpTo(DbRows, MaxViewRows)}
    \cup {Table(<<N_title, N_instock>>,
                << <<Text(T_Light), Text(T_In)>>, <<Text(T_Sharp), NaN>> >>)}

InitView ==
    /\ pc = "view"
    /\ raw_df \in ViewTables
    /\ df = raw_df
    /\ csv_file = None
    /\ conn = "closed"
    /\ st_messages = <<Msg("Data loaded from database!", 0)>>
    /\ slider = None /\ selected_price = None /\ filtered_df = None
    /\ in_stock_df = None /\ search_results = None
    /\ ScrapeIdle /\ DetectIdle

NextView == Render

SpecView == InitView /\ [][NextView]_vars

(***************************************************************************)
(* detect_column: properties                                               *)
(***************************************************************************)
\* the candidates that are column names, and the columns that hold a
\* candidate whatever the case
ExactNames == {i \in 1..Len(names_in) :
                 \E j \in 1..Len(columns_in) : columns_in[j] = names_in[i]}
Holds(j, i) == Contains(lower(names_in[i]), lower(columns_in[j]))
PartialColumns == {j \in 1..Len(columns_in) : \E i \in 1..Len(names_in) : Holds(j, i)}

\* C7: detect_column returns the first candidate (in candidate order) that
\* is exactly a column name; failing that, the first column (in table order)
\* that holds some candidate as a case-insensitive substring; failing that,
\* None.
C7_DetectColumn ==
    pc = "detect_done" =>
        IF ExactNames # {} THEN detected = Text(names_in[MinOf(ExactNames)])
        ELSE IF PartialColumns # {} THEN detected = Text(columns_in[MinOf(PartialColumns)])
        ELSE detected = None

\* C7: a run in which no candidate is a column name and a column matches a
\* candidate only when the case is ignored
C7_Witness ==
    /\ pc = "detect_done"
    /\ columns_in = <<N_Book_Name, N_Unit_Price>>
    /\ names_in = <<N_stock, N_price>>
    /\ detected = Text(N_Unit_Price)

\* the situation of C8: no candidate is a column name, column a comes before
\* column b, a holds only candidates that come after one that b holds
TieBreakCase(a, b) ==
    /\ ExactNames = {}
    /\ a < b
    /\ a \in PartialColumns
    /\ \E i \in 1..Len(names_in) :
         /\ Holds(b, i)
         /\ \A h \in 1..i : ~Holds(a, h)

\* C8 as claimed: in the substring phase the earliest candidate that matches
\* any column wins, and the first column holding that candidate is returned
\* (so that in the situation above the later column b is returned).
C8_CandidatePriority ==
    (pc = "detect_done" /\ ExactNames = {} /\ PartialColumns # {}) =>
        LET names == {i \in 1..Len(names_in) : \E j \in 1..Len(columns_in) : Holds(j, i)}
            i0    == MinOf(names)
        IN  detected = Text(columns_in[MinOf({j \in 1..Len(columns_in) : Holds(j, i0)})])

\* C8, amended: the candidate order decides among exact matches only; in the
\* substring phase the table order decides: with columns a before b, a
\* holding only later candidates than b, the result is the first column that
\* holds any candidate, which stands at or before a, not at b.
C8_ColumnOrderTieBreak ==
    pc = "detect_done" =>
        /\ \A i \in ExactNames :
              (\A h \in ExactNames : i <= h) => detected = Text(names_in[i])
        /\ \A a, b \in 1..Len(columns_in) :
              TieBreakCase(a, b) =>
                \E j \in 1..a :
                    /\ detected = Text(columns_in[j])
                    /\ j \in PartialColumns
                    /\ \A h \in 1..(j - 1) : h \notin PartialColumns

\* C8: the situation has occurred and the earlier column was returned
C8_Witness ==
    /\ pc = "detect_done"
    /\ Len(columns_in) = 2
    /\ TieBreakCase(1, 2)
    /\ columns_in[1] # columns_in[2]
    /\ detected = Text(columns_in[1])

(***************************************************************************)
(* scrape_books_data: properties                                           *)
(***************************************************************************)
\* the entries of page p that lack an element
DefectiveEntries(p) ==
    LET a == PageAnswer(p, site[p])
    IN  {k \in 1..Len(a.books) :
            a.books[k].title = None \/ a.books[k].price = None
                \/ a.books[k].availability = None}

\* the three kinds of failure of a page
FetchFails(p)       == PageAnswer(p, site[p]).fetch = "error"
ContainerMissing(p) == ~FetchFails(p) /\ ~PageAnswer(p, site[p]).container
EntryDefective(p)   == ~FetchFails(p) /\ DefectiveEntries(p) # {}
PageFails(p)        == FetchFails(p) \/ ContainerMissing(p) \/ EntryDefective(p)

\* the record of entry k of page p
RecordOf(p, k) ==
    LET b == PageAnswer(p, site[p]).books[k]
    IN  <<b.title, b.price, Text(T_In)>>

\* the records of the first n entries of page p
RecordsOf(p, n) == [k \in 1..n |-> RecordOf(p, k)]

\* all the records of the pages 1..p that do not fail, page after page
RECURSIVE NonFailingRecords(_)
NonFailingRecords(p) ==
    IF p = 0 THEN <<>>
    ELSE NonFailingRecords(p - 1)
         \o (IF PageFails(p) THEN <<>>
             ELSE RecordsOf(p, Len(PageAnswer(p, site[p]).books)))

\* the same, with the entries a failing page lists before its first
\* defective entry
RECURSIVE RecordsWithPrefixes(_)
RecordsWithPrefixes(p) ==
    IF p = 0 THEN <<>>
    ELSE RecordsWithPrefixes(p - 1)
         \o (IF FetchFails(p) \/ ContainerMissing(p) THEN <<>>
             ELSE IF EntryDefective(p)
                  THEN RecordsOf(p, MinOf(DefectiveEntries(p)) - 1)
                  ELSE RecordsOf(p, Len(PageAnswer(p, site[p]).books)))

\* C5 as claimed: every page 1..5 is requested in order, the function
\* returns, and what it returns is the records of the non-failing pages, in
\* page order and in item order within a page.
C5_OnlyNonFailingPages ==
    /\ requested = [i \in 1..(page - 1) |-> i]
    /\ page <= NumPages + 1
    /\ pc = "scrape_done" =>
          /\ page = NumPages + 1
          /\ data = NonFailingRecords(NumPages)

\* C5, amended: every page 1..5 is requested in order whatever failed before
\* it, the function returns, and what it returns is, page after page, all
\* the records of a page that does not fail and, of a page that fails at an
\* entry, the records of the entries before that entry.
C5_PagesInOrder ==
    /\ requested = [i \in 1..(page - 1) |-> i]
    /\ page <= NumPages + 1
    /\ data = RecordsWithPrefixes(page - 1)
    /\ pc = "scrape_done" => page = NumPages + 1

\* C5: the function has returned after a page failed at its second entry
\* and a later page listed entries without failing
C5_Witness ==
    /\ pc = "scrape_done"
    /\ \E p, q \in 1..NumPages :
         /\ p < q
         /\ EntryDefective(p) /\ MinOf(DefectiveEntries(p)) = 2
         /\ ~PageFails(q) /\ Len(PageAnswer(q, site[q]).books) = 2

\* C6 as claimed: when the function returns, every page that failed (the GET
\* raised, the container was missing, or an entry lacked an element) has its
\* "Error scraping page" diagnostic.
C6_EveryFailureReported ==
    pc = "scrape_done" =>
        \A p \in 1..NumPages :
            PageFails(p) =>
                \E m \in 1..Len(st_messages) :
                    st_messages[m] = Msg("Error scraping page", p)

(***************************************************************************)
(* clean_data: properties                                                  *)
(***************************************************************************)
\* the price of row i as handed in is a text that is a number once the
\* artifact is stripped
WellFormed(i) ==
    /\ raw_df.rows[i][2].k = "str"
    /\ float_ok(str_replace(raw_df.rows[i][2].s, CurrencyArtifact, <<>>))

\* C4 as claimed: after clean_data every well-formed row holds the integer
\* truncation of its amount, whatever the other rows hold.
C4_MalformedRowDoesNotAbort ==
    pc = "clean_done" =>
        \A i \in 1..Len(raw_df.rows) :
            WellFormed(i) =>
                df.rows[i][2] =
                    Num(int_of(float_value(
                            str_replace(raw_df.rows[i][2].s, CurrencyArtifact, <<>>))) * 100)

(***************************************************************************)
(* main: properties of the load actions                                    *)
(***************************************************************************)
\* the run has reported that the data could not be acquired: the file could
\* not be read, the save failed, the database refused the connection or the
\* query, or the GET of every page failed
AcquisitionErrorReported ==
    \/ \E m \in 1..Len(st_messages) :
          st_messages[m].text \in {"Error loading CSV", "Error scraping data",
                                   "Database connection failed",
                                   "Error loading from database"}
    \/ /\ site # <<>>
       /\ \A p \in 1..NumPages :
             /\ site[p][1] = "error"
             /\ \E m \in 1..Len(st_messages) :
                   st_messages[m] = Msg("Error scraping page", p)

\* C1 as claimed: a load action that starts with a table in session_state.df
\* and ends by reporting an acquisition error leaves that table as it was.
C1_ErrorLeavesTable ==
    [][(pc = "start" /\ df # None /\ AcquisitionErrorReported') => df' = df]_vars

\* C3 as claimed: when "Load from Database" is over (the script stands at
\* line 50) the connection it opened is not open any more.
C3_ConnectionClosed == pc = "view" => conn # "open"

(***************************************************************************)
(* main: properties of the view                                            *)
(***************************************************************************)
\* C2 as claimed: drawing the view leaves session_state.df as it was.
C2_RenderLeavesTable == [][pc = "view" => df' = df]_vars

\* a cell that is a number, or a text that reads as one; and that number
IsAmount(c) == c.k = "num" \/ (c.k = "str" /\ float_ok(c.s))
Amount(c)   == IF c.k = "num" THEN c.n ELSE float_value(c.s)

\* the price column of the table the view was drawn for
PriceColumn == found_index(raw_df, detect_column(raw_df.columns, PriceNames))

\* the rows of that table whose price is a number not above T
Within(T) ==
    {i \in 1..Len(raw_df.rows) :
        /\ IsAmount(raw_df.rows[i][PriceColumn])
        /\ Amount(raw_df.rows[i][PriceColumn]) <= T * 100}

\* the m-th smallest element of a set of numbers
Nth(S, m) == CHOOSE i \in S : Cardinality({h \in S : h <= i}) = m

\* table t is exactly the rows S of the table the view was drawn for, in
\* their order, the price shown as a number
ExactlyRows(t, S) ==
    /\ t.columns = raw_df.columns
    /\ Len(t.rows) = Cardinality(S)
    /\ \A m \in 1..Len(t.rows) :
          t.rows[m] = [raw_df.rows[Nth(S, m)] EXCEPT ![PriceColumn] = Num(Amount(@))]

\* C9: for the threshold T the slider returned, the filtered view is exactly
\* the rows whose price is a number not above T, in their order; and so it
\* is for every threshold of the slider, the rows for a lower threshold
\* being among the rows for a higher one.
C9_PriceFilter ==
    (pc = "idle" /\ selected_price # None) =>
        /\ ExactlyRows(filtered_df, Within(selected_price.n))
        /\ \A T1, T2 \in slider_values(slider) :
              T1 <= T2 =>
                /\ ExactlyRows(price_filter(dropna(df, PriceColumn), PriceColumn, T1),
                               Within(T1))
                /\ Within(T1) \subseteq Within(T2)
                /\ Len(price_filter(dropna(df, PriceColumn), PriceColumn, T1).rows)
                      <= Len(price_filter(dropna(df, PriceColumn), PriceColumn, T2).rows)

\* C9: a view was drawn that keeps a row, drops a row for its price above
\* the threshold and drops a row for its unreadable price
C9_Witness ==
    /\ pc = "idle"
    /\ selected_price # None
    /\ Len(filtered_df.rows) >= 1
    /\ \E i \in 1..Len(raw_df.rows) : ~IsAmount(raw_df.rows[i][PriceColumn])
    /\ \E i \in 1..Len(raw_df.rows) :
          /\ IsAmount(raw_df.rows[i][PriceColumn])
          /\ Amount(raw_df.rows[i][PriceColumn]) > selected_price.n * 100

\* C10 as claimed: the default threshold handed to the slider lies between
\* the slider's min_value and max_value.
C10_DefaultInRange ==
    slider # None =>
        /\ slider.min_value <= slider.value
        /\ slider.value <= slider.max_value

=============================================================================
